---- MODULE Spec2Model ----
(***************************************************************************)
(* Model of the knowledge-graph view of ContractClarity                    *)
(* (frontend/src/app/documents/[id]/graph/page.tsx, component GraphPage):  *)
(* the React state of the component, its refs, the animation-frame loop    *)
(* with the closures it captured, the extraction polling timers, and the   *)
(* force simulation computed in fixed point.                               *)
(***************************************************************************)
EXTENDS Integers, Sequences, FiniteSets, TLC

(***************************************************************************)
(* Numbers.  Positions, velocities and sizes are fixed-point numbers with  *)
(* Unit steps per model unit; zoom is a fixed-point number with ZoomUnit   *)
(* steps per 1.0.  A null pin (fx, fy) is the empty tuple, a set pin the   *)
(* one-element tuple of its value.                                         *)
(***************************************************************************)
Unit == 10
ZoomUnit == 1000

Null == <<>>
Some(v) == <<v>>

Min(a, b) == IF a < b THEN a ELSE b
Max(a, b) == IF a > b THEN a ELSE b

\* a / b rounded toward zero (b > 0)
Quot(a, b) == IF a >= 0 THEN a \div b ELSE -((-a) \div b)

\* a / b rounded to nearest, halves up, as Math.round (a >= 0, b > 0)
RoundDiv(a, b) == (2 * a + b) \div (2 * b)

RECURSIVE SqrtIter(_, _, _)
SqrtIter(n, lo, hi) ==
    IF lo >= hi THEN lo
    ELSE LET mid == (lo + hi + 1) \div 2
         IN  IF mid * mid <= n THEN SqrtIter(n, mid, hi) ELSE SqrtIter(n, lo, mid - 1)

\* Math.sqrt on fixed-point squares: the floor of the square root
Sqrt(n) == SqrtIter(n, 0, 46340)

(***************************************************************************)
(* Force simulation parameters of runSimulation.                           *)
(***************************************************************************)
repulsion == 5000
attractionPerMille == 2
dampingPerTen == 9
centerForcePerMille == 2
maxVelocity == 5
minDistance == 80
safeMinDist == 10
boundsInset == 40
hitRadius == 20

(***************************************************************************)
(* Graph snapshots the read endpoint can return (GraphData).  A node of a  *)
(* snapshot carries id and type; label and value are display only.  G1     *)
(* holds an edge whose target is no node of the snapshot.                  *)
(***************************************************************************)
EntityTypes == {"party", "date"}

G1 == [nodes |-> << [id |-> "A", type |-> "party"], [id |-> "B", type |-> "date"] >>,
       edges |-> << [source |-> "A", target |-> "B"], [source |-> "A", target |-> "C"] >>]

G2 == [nodes |-> << [id |-> "B", type |-> "date"], [id |-> "C", type |-> "party"],
                    [id |-> "D", type |-> "date"] >>,
       edges |-> << [source |-> "C", target |-> "B"], [source |-> "C", target |-> "D"] >>]

NoGraph == [nodes |-> << >>, edges |-> << >>]

Snapshots == {G1, G2}

Ids(nodes) == { nodes[i].id : i \in 1..Len(nodes) }

(***************************************************************************)
(* runSimulation: one tick on the node array, in the order of the code.    *)
(***************************************************************************)
\* nodes.find((n) => n.id === id): index of the first match, 0 when absent
RECURSIVE FindFrom(_, _, _)
FindFrom(nodes, id, i) ==
    IF i > Len(nodes) THEN 0
    ELSE IF nodes[i].id = id THEN i ELSE FindFrom(nodes, id, i + 1)

Find(nodes, id) == FindFrom(nodes, id, 1)

\* lines 177-184: a pinned axis is forced to the pin and its velocity zeroed
ApplyPin(n) ==
    [n EXCEPT !.x  = IF n.fx # Null THEN n.fx[1] ELSE @,
              !.vx = IF n.fx # Null THEN 0 ELSE @,
              !.y  = IF n.fy # Null THEN n.fy[1] ELSE @,
              !.vy = IF n.fy # Null THEN 0 ELSE @]

\* lines 188-204: what one other node adds to (vx, vy) of node
Repel(node, other) ==
    IF node.id = other.id THEN <<0, 0>>
    ELSE LET dx == node.x - other.x
             dy == node.y - other.y
             dist == Sqrt(dx * dx + dy * dy)
             close == dist < minDistance * Unit /\ dist > 0
             px == IF close THEN Quot(dx * (minDistance * Unit - dist), 2 * dist) ELSE 0
             py == IF close THEN Quot(dy * (minDistance * Unit - dist), 2 * dist) ELSE 0
             safeDist == Max(dist, safeMinDist * Unit)
             force == (repulsion * Unit * Unit * Unit * 100) \div (safeDist * safeDist)
         IN  << px + Quot(dx * force, safeDist * 100),
                py + Quot(dy * force, safeDist * 100) >>

RECURSIVE RepelSum(_, _, _)
RepelSum(node, nodes, j) ==
    IF j > Len(nodes) THEN <<0, 0>>
    ELSE LET r == Repel(node, nodes[j])
             rest == RepelSum(node, nodes, j + 1)
         IN  << r[1] + rest[1], r[2] + rest[2] >>

\* lines 176-210: the first forEach, node by node, on the array as it stands
RECURSIVE ForcePass(_, _, _, _)
ForcePass(nodes, i, width, height) ==
    IF i > Len(nodes) THEN nodes
    ELSE LET n1 == ApplyPin(nodes[i])
             cur == [nodes EXCEPT ![i] = n1]
             r == RepelSum(n1, cur, 1)
             n2 == [n1 EXCEPT
                      !.vx = @ + r[1] + Quot((width - 2 * n1.x) * centerForcePerMille, 2000),
                      !.vy = @ + r[2] + Quot((height - 2 * n1.y) * centerForcePerMille, 2000)]
         IN  ForcePass([nodes EXCEPT ![i] = n2], i + 1, width, height)

\* EdgePass as it would be if a missing endpoint were read as a node at the origin
RECURSIVE EdgePassUnguarded(_, _, _)
EdgePassUnguarded(nodes, edges, k) ==
    IF k > Len(edges) THEN nodes
    ELSE LET s == Find(nodes, edges[k].source)
             t == Find(nodes, edges[k].target)
             sx == IF s = 0 THEN 0 ELSE nodes[s].x
             sy == IF s = 0 THEN 0 ELSE nodes[s].y
             tx == IF t = 0 THEN 0 ELSE nodes[t].x
             ty == IF t = 0 THEN 0 ELSE nodes[t].y
             ax == Quot((tx - sx) * attractionPerMille, 1000)
             ay == Quot((ty - sy) * attractionPerMille, 1000)
             n1 == IF s = 0 THEN nodes
                   ELSE [nodes EXCEPT ![s].vx = @ + ax, ![s].vy = @ + ay]
             n2 == IF t = 0 THEN n1
                   ELSE [n1 EXCEPT ![t].vx = @ - ax, ![t].vy = @ - ay]
         IN  EdgePassUnguarded(n2, edges, k + 1)

\* lines 213-226: edge attraction; an edge with an endpoint not found is skipped
RECURSIVE EdgePass(_, _, _)
EdgePass(nodes, edges, k) ==
    IF k > Len(edges) THEN nodes
    ELSE LET s == Find(nodes, edges[k].source)
             t == Find(nodes, edges[k].target)
         IN  IF s = 0 \/ t = 0 THEN EdgePass(nodes, edges, k + 1)
             ELSE LET ax == Quot((nodes[t].x - nodes[s].x) * attractionPerMille, 1000)
                      ay == Quot((nodes[t].y - nodes[s].y) * attractionPerMille, 1000)
                      n1 == [nodes EXCEPT ![s].vx = @ + ax, ![s].vy = @ + ay]
                      n2 == [n1 EXCEPT ![t].vx = @ - ax, ![t].vy = @ - ay]
                  IN  EdgePass(n2, edges, k + 1)

\* Clamp as it would be if the velocity were let through unclamped
ClampNone(lo, hi, v) == v

\* lines 233 and 239: Math.max(-maxVelocity, Math.min(maxVelocity, v))
Clamp(lo, hi, v) == Max(lo, Min(hi, v))

\* Integrate as it would be if the pin were not consulted before integrating
IntegratePinned(n, width, height) ==
    LET vx1 == Clamp(-maxVelocity * Unit, maxVelocity * Unit, Quot(n.vx * dampingPerTen, 10))
        vy1 == Clamp(-maxVelocity * Unit, maxVelocity * Unit, Quot(n.vy * dampingPerTen, 10))
    IN  [n EXCEPT !.vx = vx1, !.vy = vy1,
                  !.x = Max(boundsInset * Unit, Min(width - boundsInset * Unit, n.x + vx1)),
                  !.y = Max(boundsInset * Unit, Min(height - boundsInset * Unit, n.y + vy1))]

\* Integrate as it would be without the bounds of lines 244-245
IntegrateUnbounded(n, width, height) ==
    LET vx1 == IF n.fx = Null
               THEN Clamp(-maxVelocity * Unit, maxVelocity * Unit, Quot(n.vx * dampingPerTen, 10))
               ELSE n.vx
        vy1 == IF n.fy = Null
               THEN Clamp(-maxVelocity * Unit, maxVelocity * Unit, Quot(n.vy * dampingPerTen, 10))
               ELSE n.vy
    IN  [n EXCEPT !.vx = vx1, !.vy = vy1,
                  !.x = IF n.fx = Null THEN n.x + vx1 ELSE n.x,
                  !.y = IF n.fy = Null THEN n.y + vy1 ELSE n.y]

\* lines 229-246: damping, velocity clamp, integration, bounds
Integrate(n, width, height) ==
    LET vx1 == IF n.fx = Null
               THEN Clamp(-maxVelocity * Unit, maxVelocity * Unit, Quot(n.vx * dampingPerTen, 10))
               ELSE n.vx
        vy1 == IF n.fy = Null
               THEN Clamp(-maxVelocity * Unit, maxVelocity * Unit, Quot(n.vy * dampingPerTen, 10))
               ELSE n.vy
        x1 == IF n.fx = Null THEN n.x + vx1 ELSE n.x
        y1 == IF n.fy = Null THEN n.y + vy1 ELSE n.y
    IN  [n EXCEPT !.vx = vx1, !.vy = vy1,
                  !.x = Max(boundsInset * Unit, Min(width - boundsInset * Unit, x1)),
                  !.y = Max(boundsInset * Unit, Min(height - boundsInset * Unit, y1))]

\* lines 175-246: the kinematic state after one tick
TickNodes(nodes, edges, width, height) ==
    LET forced == ForcePass(nodes, 1, width, height)
        pulled == EdgePass(forced, edges, 1)
    IN  [i \in 1..Len(nodes) |-> Integrate(pulled[i], width, height)]

(***************************************************************************)
(* State of one GraphPage instance.                                        *)
(***************************************************************************)
VARIABLES
    graphData,      \* useState<GraphData | null>: NoGraph stands for null
    loading,        \* useState(true)
    extracting,     \* useState(false)
    selectedNode,   \* useState<Node | null>: a reference to a node object
    hoveredNode,    \* useState<Node | null>
    selectedTypes,  \* useState<Set<string>>
    zoom,           \* useState(0.8), in steps of 1/ZoomUnit
    pan,            \* useState({x: 0, y: 0}), in CSS pixels
    isDragging,     \* useState(false)
    dragStart,      \* useState({x: 0, y: 0})
    draggedNode,    \* useState<Node | null>
    nodesRef,       \* nodesRef.current: the kinematic state
    nodesGen,       \* which initializeGraph call made the objects of nodesRef
    edgesRef,       \* edgesRef.current
    animationRef,   \* animationRef.current: 0 while undefined, else a frame handle
    rafQueue,       \* frame callbacks requested and neither run nor cancelled
    rafNext,        \* the handle the next requestAnimationFrame returns
    runSimulationCb,\* what the memoized runSimulation closes over
    canvas,         \* size attributes of the canvas element
    rect,           \* logical size of the canvas container
    dpr,            \* window.devicePixelRatio
    contextOk,      \* whether canvas.getContext('2d') returns a context
    resizeListener, \* whether resizeCanvas is registered on window
    frame,          \* what the last drawGraph call drew
    mounted,        \* the component is mounted
    loadsPending,   \* loadData calls awaiting their responses
    extractPending, \* triggerExtraction calls awaiting api.graph.extract
    triggers,       \* triggerExtraction calls made so far
    intervals,      \* triggers whose checkInterval is active
    timeouts,       \* triggers whose 2-minute timeout is pending
    polls,          \* poll requests in flight, by trigger
    timedOut,       \* triggers whose timeout fired before any poll succeeded
    loads,          \* loadData calls made so far
    pollsSent,      \* poll requests sent so far
    events,         \* user input events handled so far
    frameCap,       \* the frame handles a run of the model hands out to the loop
    pollCap,        \* the poll requests a run of the model lets the interval send
    lastOp          \* the handler or callback that ran last

reactState == <<graphData, loading, extracting, selectedNode, hoveredNode, selectedTypes,
                zoom, pan, isDragging, dragStart, draggedNode>>
refs == <<nodesRef, nodesGen, edgesRef, animationRef>>
loopState == <<rafQueue, rafNext, runSimulationCb, frame>>
domState == <<canvas, rect, dpr, contextOk, resizeListener, mounted>>
netState == <<loadsPending, extractPending, triggers, intervals, timeouts, polls, timedOut,
              loads, pollsSent>>
vars == <<reactState, refs, loopState, domState, netState, events, frameCap, pollCap,
          lastOp>>

\* Bounds of the model
MaxFrames == 3
MaxEvents == 3
MaxLoads == 2
MaxTriggers == 1
MaxPolls == 1
MaxPan == 60
SettleFrames == 40
OverlapPolls == 2

NoRef == [gen |-> 0, idx |-> 0, id |-> "none"]
Origin == [x |-> 0, y |-> 0]
Zoom0 == (8 * ZoomUnit) \div 10
ZoomMin == (3 * ZoomUnit) \div 10
ZoomMax == 3 * ZoomUnit
NoFrame == [drawn |-> FALSE]

\* canvas.getBoundingClientRect(): the canvas sits right of the 16rem sidebar
CanvasOrigin == [left |-> 256, top |-> 0]

\* the values a render's closures capture
Env(z, p, sel, hov, types) ==
    [zoom |-> z, pan |-> p, selectedNode |-> sel, hoveredNode |-> hov, selectedTypes |-> types]

\* CanvasMounted as it would be if the effect ran before the render that shows the
\* canvas was committed
CanvasMountedBefore(isMounted, isLoading, data) ==
    isMounted /\ ~loading /\ Len(graphData.nodes) > 0

\* lines 614-623: the canvas is rendered once loading is over and a graph with nodes is held
CanvasMounted(isMounted, isLoading, data) ==
    isMounted /\ ~isLoading /\ Len(data.nodes) > 0

(***************************************************************************)
(* drawGraph, lines 254-351: the frame drawn from the captured view state. *)
(***************************************************************************)
drawGraph(env, nodes, edges, ratio) ==
    LET visible == IF env.selectedTypes = {}
                   THEN nodes
                   ELSE SelectSeq(nodes, LAMBDA n : n.type \in env.selectedTypes)
        visibleNodeIds == Ids(visible)
        drawnEdges == SelectSeq(edges, LAMBDA e :
                          /\ e.source \in visibleNodeIds
                          /\ e.target \in visibleNodeIds
                          /\ Find(nodes, e.source) # 0
                          /\ Find(nodes, e.target) # 0)
        labelNode == IF env.selectedNode # NoRef THEN env.selectedNode ELSE env.hoveredNode
    IN  [drawn |-> TRUE,
         dpr |-> ratio, pan |-> env.pan, zoom |-> env.zoom,
         selectedTypes |-> env.selectedTypes,
         nodes |-> [i \in 1..Len(visible) |->
                       [id |-> visible[i].id, x |-> visible[i].x, y |-> visible[i].y,
                        radius |-> IF env.selectedNode.id = visible[i].id THEN 6 ELSE 4]],
         edges |-> drawnEdges,
         selected |-> env.selectedNode.id,
         hovered |-> env.hoveredNode.id,
         label |-> IF labelNode # NoRef /\ labelNode.id \in visibleNodeIds
                   THEN labelNode.id ELSE "none"]

\* lines 163-165: Number(canvas.dataset.logicalWidth) || canvas.width
SimWidth(cv) == (IF cv.logicalWidth # 0 THEN cv.logicalWidth ELSE cv.width) * Unit
SimHeight(cv) == (IF cv.logicalHeight # 0 THEN cv.logicalHeight ELSE cv.height) * Unit

\* lines 154-161: runSimulation returns early without a canvas, nodes or a context
SimRuns(hasCanvas, nodes, ctx) == hasCanvas /\ Len(nodes) > 0 /\ ctx

\* Simulate as it would be if only the nodes the type filter shows were ticked
SimulateVisible(env, nodes, edges, cv, ratio) ==
    LET ticked == TickNodes(nodes, edges, SimWidth(cv), SimHeight(cv))
        moved == [i \in 1..Len(nodes) |->
                    IF env.selectedTypes = {} \/ nodes[i].type \in env.selectedTypes
                    THEN ticked[i] ELSE nodes[i]]
    IN  [nodes |-> moved, frame |-> drawGraph(env, moved, edges, ratio)]

\* lines 163-249: the body of runSimulation past its early returns, with the
\* view state env its closure holds: the tick, then the frame drawn from it
Simulate(env, nodes, edges, cv, ratio) ==
    LET ticked == TickNodes(nodes, edges, SimWidth(cv), SimHeight(cv))
    IN  [nodes |-> ticked, frame |-> drawGraph(env, ticked, edges, ratio)]

(***************************************************************************)
(* initializeGraph, lines 116-152, and the effect on graphData that calls  *)
(* it, lines 445-476.                                                      *)
(***************************************************************************)
\* Math.random(): the k-th draw for node i of a stream, in hundredths
RandomSeeds == { <<0, 0, 0>>, <<99, 20, 80>> }
Random(seed, i, k) == (seed[k] + 37 * i) % 100

\* cos and sin of 2*pi*i/n in thousandths, for the snapshot sizes of the model
Cos(i, n) == IF i = 0 THEN 1000
             ELSE IF n = 2 THEN -1000
             ELSE IF n = 3 THEN -500
             ELSE 0
Sin(i, n) == IF i = 0 \/ n = 2 THEN 0
             ELSE IF n = 3 THEN (IF i = 1 THEN 866 ELSE -866)
             ELSE 0

\* lines 128-143: nodes seeded on a jittered circle around the container's centre
SeedNodes(data, size, seed) ==
    LET n == Len(data.nodes)
        width == size.w * Unit
        height == size.h * Unit
        baseRadius == (Min(width, height) * 35) \div 100
    IN  [i \in 1..n |->
            LET radius == (baseRadius * (100 + Random(seed, i, 1))) \div 200
                jitterX == Quot((Random(seed, i, 2) - 50) * 80 * Unit, 100)
                jitterY == Quot((Random(seed, i, 3) - 50) * 80 * Unit, 100)
            IN  [id |-> data.nodes[i].id, type |-> data.nodes[i].type,
                 x |-> width \div 2 + Quot(radius * Cos(i - 1, n), 1000) + jitterX,
                 y |-> height \div 2 + Quot(radius * Sin(i - 1, n), 1000) + jitterY,
                 vx |-> 0, vy |-> 0, fx |-> Null, fy |-> Null]]

\* lines 451-468: resizeCanvas
resizeCanvas(size, ratio) ==
    [logicalWidth |-> size.w, logicalHeight |-> size.h,
     width |-> size.w * ratio, height |-> size.h * ratio]

\* Cancelled as it would be if cancelAnimationFrame were never called
CancelledNone(queue, handle) == queue

\* cancelAnimationFrame(animationRef.current)
Cancelled(queue, handle) == { f \in queue : f.h # handle }

\* setGraphData(g) followed by the commit and the effect on graphData.  The
\* caller fixes loading' and runSimulationCb'.
GraphDataEffect(g) ==
    /\ graphData' = g
    /\ IF CanvasMounted(mounted, loading', g)
       THEN \E seed \in RandomSeeds :
              LET seeded == SeedNodes(g, rect, seed)
                  cv == resizeCanvas(rect, dpr)
                  runs == SimRuns(TRUE, seeded, contextOk)
                  sim == Simulate(runSimulationCb', seeded, g.edges, cv, dpr)
                  ticked == IF runs THEN sim.nodes ELSE seeded
                  kept == IF animationRef # 0 THEN Cancelled(rafQueue, animationRef)
                          ELSE rafQueue
              IN  /\ canvas' = cv
                  /\ resizeListener' = TRUE
                  /\ nodesRef' = ticked
                  /\ nodesGen' = nodesGen + 1
                  /\ edgesRef' = g.edges
                  /\ frame' = IF runs THEN sim.frame ELSE frame
                  /\ rafQueue' = IF runs
                                 THEN kept \cup {[h |-> rafNext, env |-> runSimulationCb']}
                                 ELSE kept
                  /\ animationRef' = IF runs THEN rafNext ELSE animationRef
                  /\ rafNext' = IF runs THEN rafNext + 1 ELSE rafNext
       ELSE UNCHANGED <<canvas, resizeListener, nodesRef, nodesGen, edgesRef, frame,
                        rafQueue, animationRef, rafNext>>

interaction == <<selectedNode, hoveredNode, selectedTypes, zoom, pan, isDragging,
                 dragStart, draggedNode>>
graphRefs == <<canvas, resizeListener, nodesRef, nodesGen, edgesRef, frame,
               rafQueue, animationRef, rafNext>>

(***************************************************************************)
(* loadData, lines 68-89.                                                  *)
(***************************************************************************)
\* the effect on documentId calls loadData again
loadData ==
    /\ mounted
    /\ loads < MaxLoads
    /\ loads' = loads + 1
    /\ loadsPending' = loadsPending + 1
    /\ lastOp' = "loadData"
    /\ UNCHANGED <<reactState, refs, loopState, domState, extractPending, triggers,
                   intervals, timeouts, polls, timedOut, pollsSent>>

\* both requests of a loadData call have settled
loadDataSettled(docOk, g) ==
    /\ loadsPending > 0
    /\ loadsPending' = loadsPending - 1
    /\ lastOp' = IF mounted /\ docOk /\ Len(g.nodes) > 0 THEN "loadData.setGraphData"
                  ELSE "loadData.noGraph"
    /\ UNCHANGED <<extracting, interaction, runSimulationCb, rect, dpr, contextOk, mounted,
                   extractPending, triggers, intervals, timeouts, polls, timedOut,
                   loads, pollsSent>>
    /\ IF mounted
       THEN /\ loading' = FALSE
            /\ IF docOk /\ Len(g.nodes) > 0
               THEN GraphDataEffect(g)
               ELSE UNCHANGED <<graphData, graphRefs>>
       ELSE UNCHANGED <<loading, graphData, graphRefs>>

(***************************************************************************)
(* triggerExtraction, lines 91-114, and the timers it starts.              *)
(***************************************************************************)
\* lines 633-636: the Extract button is shown without a graph, enabled unless extracting
ExtractButtonEnabled ==
    mounted /\ ~loading /\ Len(graphData.nodes) = 0 /\ ~extracting

triggerExtraction ==
    /\ ExtractButtonEnabled
    /\ triggers < MaxTriggers
    /\ triggers' = triggers + 1
    /\ extracting' = TRUE
    /\ extractPending' = extractPending \cup {triggers + 1}
    /\ lastOp' = "triggerExtraction"
    /\ UNCHANGED <<graphData, loading, interaction, refs, loopState, domState, loadsPending,
                   intervals, timeouts, polls, timedOut, loads, pollsSent>>

\* line 94 resolved: lines 96-109 start the interval and the timeout
extractResolved(k) ==
    /\ k \in extractPending
    /\ extractPending' = extractPending \ {k}
    /\ intervals' = intervals \cup {k}
    /\ timeouts' = timeouts \cup {k}
    /\ lastOp' = "extractResolved"
    /\ UNCHANGED <<reactState, refs, loopState, domState, loadsPending, triggers, polls,
                   timedOut, loads, pollsSent>>

\* line 94 rejected: lines 110-113
extractRejected(k) ==
    /\ k \in extractPending
    /\ extractPending' = extractPending \ {k}
    /\ extracting' = IF mounted THEN FALSE ELSE extracting
    /\ lastOp' = "extractRejected"
    /\ UNCHANGED <<graphData, loading, interaction, refs, loopState, domState, loadsPending,
                   triggers, intervals, timeouts, polls, timedOut, loads, pollsSent>>

\* line 96-97: the interval callback sends a poll request
intervalFires(k) ==
    /\ k \in intervals
    /\ pollsSent < pollCap
    /\ pollsSent' = pollsSent + 1
    /\ polls' = [polls EXCEPT ![k] = @ + 1]
    /\ lastOp' = "intervalFires"
    /\ UNCHANGED <<reactState, refs, loopState, domState, loadsPending, extractPending,
                   triggers, intervals, timeouts, timedOut, loads>>

\* lines 97-103: a poll request settles with graph g (NoGraph: failed or no nodes)
pollSettled(k, g) ==
    /\ polls[k] > 0
    /\ polls' = [polls EXCEPT ![k] = @ - 1]
    /\ lastOp' = IF mounted /\ Len(g.nodes) > 0 THEN "poll.setGraphData"
                  ELSE "poll.noGraph"
    /\ UNCHANGED <<loading, interaction, runSimulationCb, rect, dpr, contextOk, mounted,
                   loadsPending, extractPending, triggers, timeouts, timedOut, loads,
                   pollsSent>>
    /\ IF Len(g.nodes) > 0
       THEN /\ intervals' = intervals \ {k}
            /\ IF mounted
               THEN extracting' = FALSE /\ GraphDataEffect(g)
               ELSE UNCHANGED <<extracting, graphData, graphRefs>>
       ELSE UNCHANGED <<intervals, extracting, graphData, graphRefs>>

\* timeoutFires as it would be if the timeout did not clear the interval
timeoutFiresKeepsInterval(k) ==
    /\ k \in timeouts
    /\ timeouts' = timeouts \ {k}
    /\ timedOut' = IF k \in intervals THEN timedOut \cup {k} ELSE timedOut
    /\ extracting' = IF mounted THEN FALSE ELSE extracting
    /\ lastOp' = "timeoutFires"
    /\ UNCHANGED <<graphData, loading, interaction, refs, loopState, domState, loadsPending,
                   extractPending, triggers, intervals, polls, loads, pollsSent>>

\* lines 106-109: the 2-minute timeout
timeoutFires(k) ==
    /\ k \in timeouts
    /\ timeouts' = timeouts \ {k}
    /\ intervals' = intervals \ {k}
    /\ timedOut' = IF k \in intervals THEN timedOut \cup {k} ELSE timedOut
    /\ extracting' = IF mounted THEN FALSE ELSE extracting
    /\ lastOp' = "timeoutFires"
    /\ UNCHANGED <<graphData, loading, interaction, refs, loopState, domState, loadsPending,
                   extractPending, triggers, polls, loads, pollsSent>>

(***************************************************************************)
(* The frame loop: a requested frame callback runs runSimulation with the  *)
(* closure it was requested with, lines 154-252.                           *)
(***************************************************************************)
runSimulation(f) ==
    /\ f \in rafQueue
    /\ rafNext <= frameCap
    /\ UNCHANGED <<reactState, nodesGen, edgesRef, runSimulationCb, domState, netState>>
    /\ IF SimRuns(CanvasMounted(mounted, loading, graphData), nodesRef, contextOk)
       THEN LET sim == Simulate(f.env, nodesRef, edgesRef, canvas, dpr)
            IN  /\ nodesRef' = sim.nodes
                /\ frame' = sim.frame
                /\ rafQueue' = (rafQueue \ {f}) \cup {[h |-> rafNext, env |-> f.env]}
                /\ animationRef' = rafNext
                /\ rafNext' = rafNext + 1
                /\ lastOp' = "runSimulation"
       ELSE /\ rafQueue' = rafQueue \ {f}
            /\ lastOp' = "runSimulation.return"
            /\ UNCHANGED <<nodesRef, frame, animationRef, rafNext>>

\* lines 478-485 and the cleanup of the graphData effect, line 475
unmount ==
    /\ mounted
    /\ mounted' = FALSE
    /\ rafQueue' = IF animationRef # 0 THEN Cancelled(rafQueue, animationRef) ELSE rafQueue
    /\ resizeListener' = FALSE
    /\ lastOp' = "unmount"
    /\ UNCHANGED <<reactState, refs, rafNext, runSimulationCb, frame, canvas, rect, dpr,
                   contextOk, netState>>

\* the container is resized; the window's resize listener re-measures the canvas
ContainerSizes == { [w |-> 300, h |-> 200], [w |-> 60, h |-> 200], [w |-> 0, h |-> 0] }

windowResize(size) ==
    /\ mounted
    /\ size # rect
    /\ rect' = size
    /\ canvas' = IF resizeListener THEN resizeCanvas(size, dpr) ELSE canvas
    /\ lastOp' = "windowResize"
    /\ UNCHANGED <<reactState, refs, loopState, dpr, contextOk, resizeListener, mounted,
                   netState>>

\* the 2d context is lost or becomes available again
contextChange ==
    /\ mounted
    /\ contextOk' = ~contextOk
    /\ lastOp' = "contextChange"
    /\ UNCHANGED <<reactState, refs, loopState, canvas, rect, dpr, resizeListener, mounted,
                   netState>>

(***************************************************************************)
(* Interaction.  After a handler's state updates the component renders     *)
(* again; useCallback (line 252) makes a new runSimulation only when       *)
(* selectedNode, hoveredNode, zoom or pan changed, and the new callback    *)
(* closes over the values of that render.                                  *)
(***************************************************************************)
Rerender(panSet) ==
    runSimulationCb' =
        IF \/ panSet
           \/ zoom' # zoom
           \/ selectedNode' # selectedNode
           \/ hoveredNode' # hoveredNode
        THEN Env(zoom', pan', selectedNode', hoveredNode', selectedTypes')
        ELSE runSimulationCb

CanvasShown == CanvasMounted(mounted, loading, graphData)

\* lines 269-271: where drawGraph puts model point (x, y) on the canvas
\* bitmap, under setTransform(dpr), translate(pan), scale(zoom); in steps of
\* 1/(Unit * ZoomUnit) device pixel
DevicePoint(env, ratio, x, y) ==
    [x |-> (x * env.zoom + env.pan.x * Unit * ZoomUnit) * ratio,
     y |-> (y * env.zoom + env.pan.y * Unit * ZoomUnit) * ratio]

\* lines 461-467 and 358: the bitmap is ratio device pixels per CSS pixel, and
\* the canvas box starts at CanvasOrigin; the client position, in whole CSS
\* pixels, of a pointer over device point d
ClientPoint(d, ratio) ==
    [x |-> CanvasOrigin.left + Quot(d.x, ratio * Unit * ZoomUnit),
     y |-> CanvasOrigin.top + Quot(d.y, ratio * Unit * ZoomUnit)]

\* ModelPoint as it would be if the pan were not taken off the pointer position
ModelPointNoPan(p) ==
    [x |-> Quot((p.x - CanvasOrigin.left) * Unit * ZoomUnit, zoom),
     y |-> Quot((p.y - CanvasOrigin.top) * Unit * ZoomUnit, zoom)]

\* lines 358-360: the pointer's position in model space
ModelPoint(p) ==
    [x |-> Quot((p.x - CanvasOrigin.left - pan.x) * Unit * ZoomUnit, zoom),
     y |-> Quot((p.y - CanvasOrigin.top - pan.y) * Unit * ZoomUnit, zoom)]

\* lines 363-367: the first node within the hit radius of the point, 0 when none
RECURSIVE HitFrom(_, _, _)
HitFrom(nodes, pt, i) ==
    IF i > Len(nodes) THEN 0
    ELSE LET dx == nodes[i].x - pt.x
             dy == nodes[i].y - pt.y
         IN  IF Sqrt(dx * dx + dy * dy) < hitRadius * Unit THEN i
             ELSE HitFrom(nodes, pt, i + 1)

\* a hit test that passes over the nodes the type filter hides
HitVisible(nodes, pt) ==
    LET s == { i \in 1..Len(nodes) :
                 /\ selectedTypes = {} \/ nodes[i].type \in selectedTypes
                 /\ HitFrom(<<nodes[i]>>, pt, 1) = 1 }
    IN  IF s = {} THEN 0 ELSE CHOOSE i \in s : \A j \in s : i <= j

Hit(nodes, pt) == HitFrom(nodes, pt, 1)

RefTo(i) == [gen |-> nodesGen, idx |-> i, id |-> nodesRef[i].id]

\* a write to the pin of the object a reference names; an object that is no
\* longer in nodesRef.current takes the write without effect on the simulation
WithPin(nodes, ref, px, py) ==
    IF ref.gen = nodesGen /\ ref.idx \in 1..Len(nodes)
    THEN [nodes EXCEPT ![ref.idx].fx = px, ![ref.idx].fy = py]
    ELSE nodes

\* where the user can point: at a node as placed by the current view
\* transform, near the canvas corner, or in the middle of the canvas
ScreenOf(n) ==
    [x |-> Quot(n.x * zoom, Unit * ZoomUnit) + pan.x + CanvasOrigin.left,
     y |-> Quot(n.y * zoom, Unit * ZoomUnit) + pan.y + CanvasOrigin.top]

Pointers ==
    { ScreenOf(nodesRef[i]) : i \in 1..Len(nodesRef) }
      \cup { [x |-> CanvasOrigin.left + 5, y |-> CanvasOrigin.top + 5],
             [x |-> CanvasOrigin.left + 35, y |-> CanvasOrigin.top + 25] }

\* lines 354-378
handleCanvasMouseDown(p) ==
    /\ CanvasShown
    /\ lastOp' = "handleCanvasMouseDown"
    /\ LET pt == ModelPoint(p)
           clicked == Hit(nodesRef, pt)
       IN  IF clicked # 0
           THEN /\ draggedNode' = RefTo(clicked)
                /\ nodesRef' = [nodesRef EXCEPT ![clicked].fx = Some(nodesRef[clicked].x),
                                                ![clicked].fy = Some(nodesRef[clicked].y)]
                /\ selectedNode' = RefTo(clicked)
                /\ UNCHANGED <<isDragging, dragStart>>
           ELSE /\ isDragging' = TRUE
                /\ dragStart' = [x |-> p.x - pan.x, y |-> p.y - pan.y]
                /\ UNCHANGED <<draggedNode, nodesRef, selectedNode>>
    /\ UNCHANGED <<graphData, loading, extracting, hoveredNode, selectedTypes, zoom, pan>>
    /\ Rerender(FALSE)
    /\ UNCHANGED <<nodesGen, edgesRef, animationRef, rafQueue, rafNext, frame, domState,
                   netState>>

\* lines 380-405
handleCanvasMouseMove(p) ==
    /\ CanvasShown
    /\ lastOp' = "handleCanvasMouseMove"
    /\ LET pt == ModelPoint(p)
       IN  IF draggedNode # NoRef
           THEN /\ nodesRef' = WithPin(nodesRef, draggedNode, Some(pt.x), Some(pt.y))
                /\ UNCHANGED <<pan, hoveredNode>>
           ELSE IF isDragging
           THEN /\ pan' = [x |-> p.x - dragStart.x, y |-> p.y - dragStart.y]
                /\ pan'.x \in -MaxPan..MaxPan
                /\ pan'.y \in -MaxPan..MaxPan
                /\ UNCHANGED <<nodesRef, hoveredNode>>
           ELSE /\ hoveredNode' = (IF Hit(nodesRef, pt) # 0 THEN RefTo(Hit(nodesRef, pt))
                                   ELSE NoRef)
                /\ UNCHANGED <<nodesRef, pan>>
    /\ UNCHANGED <<graphData, loading, extracting, selectedNode, selectedTypes, zoom,
                   isDragging, dragStart, draggedNode>>
    /\ Rerender(draggedNode = NoRef /\ isDragging)
    /\ UNCHANGED <<nodesGen, edgesRef, animationRef, rafQueue, rafNext, frame, domState,
                   netState>>

\* lines 407-414: what handleCanvasMouseUp does to the gesture
MouseUpEffect ==
    /\ nodesRef' = IF draggedNode # NoRef THEN WithPin(nodesRef, draggedNode, Null, Null)
                   ELSE nodesRef
    /\ draggedNode' = NoRef
    /\ isDragging' = FALSE

handleCanvasMouseUp ==
    /\ CanvasShown
    /\ lastOp' = "handleCanvasMouseUp"
    /\ MouseUpEffect
    /\ UNCHANGED <<graphData, loading, extracting, selectedNode, hoveredNode, selectedTypes,
                   zoom, pan, dragStart>>
    /\ Rerender(FALSE)
    /\ UNCHANGED <<nodesGen, edgesRef, animationRef, rafQueue, rafNext, frame, domState,
                   netState>>

\* lines 416-419
handleCanvasMouseLeave ==
    /\ CanvasShown
    /\ lastOp' = "handleCanvasMouseLeave"
    /\ MouseUpEffect
    /\ hoveredNode' = NoRef
    /\ UNCHANGED <<graphData, loading, extracting, selectedNode, selectedTypes, zoom, pan,
                   dragStart>>
    /\ Rerender(FALSE)
    /\ UNCHANGED <<nodesGen, edgesRef, animationRef, rafQueue, rafNext, frame, domState,
                   netState>>

\* everything but the view state a control of the header or sidebar touches
ControlFrame ==
    UNCHANGED <<graphData, loading, extracting, hoveredNode, isDragging, dragStart,
                draggedNode, refs, rafQueue, rafNext, frame, domState, netState>>

\* lines 421-425: deltaY > 0 scrolls down
handleWheel(down) ==
    /\ CanvasShown
    /\ lastOp' = "handleWheel"
    /\ zoom' = Max(ZoomMin, Min(ZoomMax, IF down THEN Quot(zoom * 9, 10)
                                         ELSE Quot(zoom * 11, 10)))
    /\ UNCHANGED <<selectedNode, selectedTypes, pan>>
    /\ ControlFrame
    /\ Rerender(FALSE)

\* zoomInClick as it would be if a step past the maximum were refused rather
\* than clamped
zoomInRefusing ==
    /\ mounted /\ ~loading
    /\ lastOp' = "zoomInClick"
    /\ zoom' = IF Quot(zoom * 12, 10) > ZoomMax THEN zoom ELSE Quot(zoom * 12, 10)
    /\ UNCHANGED <<selectedNode, selectedTypes, pan>>
    /\ ControlFrame
    /\ Rerender(FALSE)

\* lines 527-532
zoomInClick ==
    /\ mounted /\ ~loading
    /\ lastOp' = "zoomInClick"
    /\ zoom' = Min(ZoomMax, Quot(zoom * 12, 10))
    /\ UNCHANGED <<selectedNode, selectedTypes, pan>>
    /\ ControlFrame
    /\ Rerender(FALSE)

\* zoomOutClick as it would be without the lower clamp
zoomOutUnclamped ==
    /\ mounted /\ ~loading
    /\ lastOp' = "zoomOutClick"
    /\ zoom' = Quot(zoom * 8, 10)
    /\ UNCHANGED <<selectedNode, selectedTypes, pan>>
    /\ ControlFrame
    /\ Rerender(FALSE)

\* lines 533-538
zoomOutClick ==
    /\ mounted /\ ~loading
    /\ lastOp' = "zoomOutClick"
    /\ zoom' = Max(ZoomMin, Quot(zoom * 8, 10))
    /\ UNCHANGED <<selectedNode, selectedTypes, pan>>
    /\ ControlFrame
    /\ Rerender(FALSE)

\* resetView as it would be if it left the type filter alone
resetViewKeepsFilter ==
    /\ mounted /\ ~loading
    /\ lastOp' = "resetView"
    /\ zoom' = Zoom0
    /\ pan' = Origin
    /\ selectedNode' = NoRef
    /\ UNCHANGED selectedTypes
    /\ ControlFrame
    /\ Rerender(TRUE)

\* lines 427-432
resetView ==
    /\ mounted /\ ~loading
    /\ lastOp' = "resetView"
    /\ zoom' = Zoom0
    /\ pan' = Origin
    /\ selectedNode' = NoRef
    /\ selectedTypes' = {}
    /\ ControlFrame
    /\ Rerender(TRUE)

\* lines 563-571: a type has a button when the snapshot counts entities of it
TypeButtons == { graphData.nodes[i].type : i \in 1..Len(graphData.nodes) }

\* lines 434-442
toggleType(type) ==
    /\ mounted /\ ~loading
    /\ type \in TypeButtons
    /\ lastOp' = "toggleType"
    /\ selectedTypes' = IF type \in selectedTypes THEN selectedTypes \ {type}
                        ELSE selectedTypes \cup {type}
    /\ UNCHANGED <<selectedNode, zoom, pan>>
    /\ ControlFrame
    /\ Rerender(FALSE)

\* Math.round(zoom * 100), lines 654-657
ZoomPercent == RoundDiv(zoom * 100, ZoomUnit)

(***************************************************************************)
(* The component after its first render: loading, with the loadData call   *)
(* of the mount effect in flight (lines 55-70).                            *)
(***************************************************************************)
DevicePixelRatios == {1, 2}

Init ==
    /\ graphData = NoGraph
    /\ loading = TRUE
    /\ extracting = FALSE
    /\ selectedNode = NoRef
    /\ hoveredNode = NoRef
    /\ selectedTypes = {}
    /\ zoom = Zoom0
    /\ pan = Origin
    /\ isDragging = FALSE
    /\ dragStart = Origin
    /\ draggedNode = NoRef
    /\ nodesRef = << >>
    /\ nodesGen = 0
    /\ edgesRef = << >>
    /\ animationRef = 0
    /\ rafQueue = {}
    /\ rafNext = 1
    /\ runSimulationCb = Env(Zoom0, Origin, NoRef, NoRef, {})
    /\ canvas = [logicalWidth |-> 0, logicalHeight |-> 0, width |-> 300, height |-> 150]
    /\ rect \in ContainerSizes
    /\ dpr \in DevicePixelRatios
    /\ contextOk = TRUE
    /\ resizeListener = FALSE
    /\ frame = NoFrame
    /\ mounted = TRUE
    /\ loadsPending = 1
    /\ extractPending = {}
    /\ triggers = 0
    /\ intervals = {}
    /\ timeouts = {}
    /\ polls = [k \in 1..(MaxTriggers + 1) |-> 0]
    /\ timedOut = {}
    /\ loads = 1
    /\ pollsSent = 0
    /\ events = 0
    /\ frameCap \in {MaxFrames, SettleFrames}
    /\ pollCap \in {MaxPolls, OverlapPolls}
    /\ lastOp = "mount"

\* a step of the program itself: no user input is consumed
Auto(A) == A /\ UNCHANGED <<events, frameCap, pollCap>>

\* a user input event, of which a run of the model holds at most MaxEvents
User(A) ==
    events < MaxEvents /\ events' = events + 1 /\ UNCHANGED <<frameCap, pollCap>> /\ A

\* a view in a container of the usual size, on a display of ratio 2
InitOne ==
    /\ Init
    /\ dpr = 2
    /\ rect = [w |-> 300, h |-> 200]
    /\ frameCap = MaxFrames
    /\ pollCap = MaxPolls

\* a view in a container of any size, left to itself for many frames
InitSettle == Init /\ dpr = 2 /\ frameCap = SettleFrames /\ pollCap = MaxPolls

\* a view whose polling interval gets to fire while a poll is still in flight
InitPoll ==
    /\ Init
    /\ dpr = 2
    /\ rect = [w |-> 300, h |-> 200]
    /\ frameCap = MaxFrames
    /\ pollCap = OverlapPolls

\* Zoom controls on a loaded view, any number of inputs
NextZoom ==
    \/ Auto(loadDataSettled(TRUE, G1))
    \/ \E down \in BOOLEAN : Auto(handleWheel(down))
    \/ Auto(zoomInClick)
    \/ Auto(zoomOutClick)
    \/ Auto(resetView)

SpecZoom == InitOne /\ [][NextZoom]_vars

\* Interaction with a loaded view while the frame loop runs
NextView ==
    \/ Auto(loadDataSettled(TRUE, G1))
    \/ \E p \in Pointers : User(handleCanvasMouseDown(p))
    \/ \E p \in Pointers : User(handleCanvasMouseMove(p))
    \/ User(handleCanvasMouseUp)
    \/ User(handleCanvasMouseLeave)
    \/ User(zoomInClick)
    \/ User(resetView)
    \/ \E t \in EntityTypes : User(toggleType(t))
    \/ \E f \in rafQueue : Auto(runSimulation(f))

SpecView == InitOne /\ [][NextView]_vars

\* Zooming between loads of the graph
NextReload ==
    \/ Auto(loadData)
    \/ \E g \in Snapshots \cup {NoGraph} : Auto(loadDataSettled(TRUE, g))
    \/ User(zoomInClick)
    \/ User(zoomOutClick)
    \/ \E f \in rafQueue : Auto(runSimulation(f))

SpecReload == InitOne /\ [][NextReload]_vars

\* Loading, extraction and polling
NextLoad ==
    \/ Auto(loadData)
    \/ \E ok \in BOOLEAN, g \in Snapshots \cup {NoGraph} : Auto(loadDataSettled(ok, g))
    \/ User(triggerExtraction)
    \/ \E k \in 1..MaxTriggers : Auto(extractResolved(k))
    \/ \E k \in 1..MaxTriggers : Auto(extractRejected(k))
    \/ \E k \in 1..MaxTriggers : Auto(intervalFires(k))
    \/ \E k \in 1..MaxTriggers, g \in Snapshots \cup {NoGraph} : Auto(pollSettled(k, g))
    \/ \E k \in 1..MaxTriggers : Auto(timeoutFires(k))
    \/ \E f \in rafQueue : Auto(runSimulation(f))
    \/ Auto(unmount)

SpecLoad == InitOne /\ [][NextLoad]_vars

\* A timer started with setTimeout fires once its delay has passed, whatever
\* else the page does (lines 106-109 are never cancelled)
TimersFire == \A k \in 1..MaxTriggers : WF_vars(Auto(timeoutFires(k)))

SpecLoadFair == SpecLoad /\ TimersFire

\* The container is resized and the drawing context comes and goes while
\* the loop runs
NextResize ==
    \/ Auto(loadDataSettled(TRUE, G1))
    \/ \E size \in ContainerSizes : User(windowResize(size))
    \/ User(contextChange)
    \/ \E f \in rafQueue : Auto(runSimulation(f))

SpecResize == InitOne /\ [][NextResize]_vars

\* A loaded graph ticking undisturbed
NextSettle ==
    \/ \E g \in Snapshots : Auto(loadDataSettled(TRUE, g))
    \/ \E f \in rafQueue : Auto(runSimulation(f))

SpecSettle == InitSettle /\ [][NextSettle]_vars

\* One extraction on a document without a graph, polled until it has one
NextPoll ==
    \/ Auto(loadDataSettled(TRUE, NoGraph))
    \/ User(triggerExtraction)
    \/ \E k \in 1..MaxTriggers : Auto(extractResolved(k))
    \/ \E k \in 1..MaxTriggers : Auto(intervalFires(k))
    \/ \E k \in 1..MaxTriggers, g \in Snapshots \cup {NoGraph} : Auto(pollSettled(k, g))
    \/ \E k \in 1..MaxTriggers : Auto(timeoutFires(k))
    \/ \E f \in rafQueue : Auto(runSimulation(f))

SpecPoll == InitPoll /\ [][NextPoll]_vars

\* Dragging a node while the graph is loaded again
NextDragReload ==
    \/ Auto(loadData)
    \/ Auto(loadDataSettled(TRUE, G1))
    \/ \E p \in Pointers : User(handleCanvasMouseDown(p))
    \/ \E p \in Pointers : User(handleCanvasMouseMove(p))
    \/ User(handleCanvasMouseUp)
    \/ \E f \in rafQueue : Auto(runSimulation(f))

SpecDragReload == InitOne /\ [][NextDragReload]_vars

\* the pointer is over the canvas box
InCanvas(p) ==
    /\ p.x - CanvasOrigin.left \in 0..(rect.w - 1)
    /\ p.y - CanvasOrigin.top \in 0..(rect.h - 1)

\* Dragging nodes in a container that is being resized
NextBounds ==
    \/ Auto(loadDataSettled(TRUE, G1))
    \/ \E size \in ContainerSizes : User(windowResize(size))
    \/ \E p \in Pointers : InCanvas(p) /\ User(handleCanvasMouseDown(p))
    \/ \E p \in Pointers : InCanvas(p) /\ User(handleCanvasMouseMove(p))
    \/ \E f \in rafQueue : Auto(runSimulation(f))

SpecBounds == InitOne /\ [][NextBounds]_vars

(***************************************************************************)
(* Properties                                                              *)
(***************************************************************************)
Pinned(n) == n.fx # Null /\ n.fy # Null
TickWidth == SimWidth(canvas)
TickHeight == SimHeight(canvas)
InsetX(v) == Max(boundsInset * Unit, Min(TickWidth - boundsInset * Unit, v))
InsetY(v) == Max(boundsInset * Unit, Min(TickHeight - boundsInset * Unit, v))

\* C1 as stated: at the end of every tick a pinned node sits exactly on its
\* pin target, wherever the target lies.
PinFidelityExact ==
    lastOp = "runSimulation" =>
        \A i \in 1..Len(nodesRef) :
            Pinned(nodesRef[i]) =>
                /\ nodesRef[i].x = nodesRef[i].fx[1]
                /\ nodesRef[i].y = nodesRef[i].fy[1]

\* C1 amended: at the end of every tick a pinned node sits on its pin target
\* clamped to the inset bounds of the viewport, whatever forces its
\* neighbours exert; it sits exactly on the target when the target is
\* inside those bounds.
PinFidelityClamped ==
    lastOp = "runSimulation" =>
        \A i \in 1..Len(nodesRef) :
            Pinned(nodesRef[i]) =>
                /\ nodesRef[i].x = InsetX(nodesRef[i].fx[1])
                /\ nodesRef[i].y = InsetY(nodesRef[i].fy[1])

\* a tick has run on a node pinned inside the bounds while forces acted on it
PinHeldAgainstForces ==
    /\ lastOp = "runSimulation"
    /\ \E i \in 1..Len(nodesRef) :
          /\ Pinned(nodesRef[i])
          /\ nodesRef[i].fx[1] = InsetX(nodesRef[i].fx[1])
          /\ nodesRef[i].fy[1] = InsetY(nodesRef[i].fy[1])
          /\ nodesRef[i].x = nodesRef[i].fx[1]
          /\ nodesRef[i].y = nodesRef[i].fy[1]
          /\ (nodesRef[i].vx # 0 \/ nodesRef[i].vy # 0)

\* C2: the frame a tick draws uses the zoom, pan, selection, hover and type
\* filter current at that tick.
FrameUsesCurrentView ==
    lastOp = "runSimulation" =>
        /\ frame.zoom = zoom
        /\ frame.pan = pan
        /\ frame.selected = selectedNode.id
        /\ frame.hovered = hoveredNode.id
        /\ frame.selectedTypes = selectedTypes

ResetShowsHundredPercent ==
    lastOp = "resetView" => ZoomPercent = 100

\* C5: zoom stays within [0.3, 3.0].
ZoomBounded == ZoomMin <= zoom /\ zoom <= ZoomMax

\* an out-of-range zoom request was clamped at the lower bound
ZoomClampedLow ==
    /\ zoom = ZoomMin
    /\ lastOp \in {"zoomOutClick", "handleWheel"}

\* C6: right after a load that initialises the graph, zoom is 0.8 and pan is
\* (0,0).
LoadResetsView ==
    lastOp \in {"loadData.setGraphData", "poll.setGraphData"} =>
        zoom = Zoom0 /\ pan = Origin

\* C7: toggleType changes nothing but the type filter, and the kinematic
\* state a tick produces is the one it would produce under every other type
\* filter.
FilterIsViewOnly ==
    [][ /\ lastOp' = "toggleType" =>
             UNCHANGED <<graphData, loading, extracting, selectedNode, hoveredNode, zoom, pan,
                         isDragging, dragStart, draggedNode, refs, loopState, domState,
                         netState>>
        /\ lastOp' = "runSimulation" =>
             \A f \in rafQueue : \A types \in SUBSET EntityTypes :
                nodesRef' = Simulate([f.env EXCEPT !.selectedTypes = types],
                                     nodesRef, edgesRef, canvas, dpr).nodes ]_vars

\* a tick has moved a node that the type filter hides
TickUnderFilter ==
    /\ lastOp = "runSimulation"
    /\ selectedTypes # {}
    /\ \E i \in 1..Len(nodesRef) :
          /\ nodesRef[i].type \notin selectedTypes
          /\ (nodesRef[i].vx # 0 \/ nodesRef[i].vy # 0)

\* the edges of a list whose two endpoints are ids of the nodes
ValidEdges(edges, nodes) ==
    SelectSeq(edges, LAMBDA e : e.source \in Ids(nodes) /\ e.target \in Ids(nodes))

\* C8: a tick and its frame are what they would be with the edges that have
\* an absent endpoint removed, and every edge drawn has both endpoints in the
\* kinematic state.
EdgeFiltering ==
    /\ \A f \in rafQueue :
          Simulate(f.env, nodesRef, edgesRef, canvas, dpr)
            = Simulate(f.env, nodesRef, ValidEdges(edgesRef, nodesRef), canvas, dpr)
    /\ frame.drawn =>
          \A k \in 1..Len(frame.edges) :
              /\ frame.edges[k].source \in Ids(nodesRef)
              /\ frame.edges[k].target \in Ids(nodesRef)

\* a tick has run and drawn with an edge whose endpoint is absent in the list
TickWithDanglingEdge ==
    /\ lastOp = "runSimulation"
    /\ ValidEdges(edgesRef, nodesRef) # edgesRef
    /\ Len(frame.edges) > 0

\* C9: whenever a snapshot with nodes is held for display, the kinematic
\* state holds exactly its nodes, in its order.
KinematicIdsMatchSnapshot ==
    Len(graphData.nodes) > 0 =>
        /\ Len(nodesRef) = Len(graphData.nodes)
        /\ \A i \in 1..Len(nodesRef) : nodesRef[i].id = graphData.nodes[i].id
        /\ edgesRef = graphData.edges

\* a second snapshot has replaced the first and the loop has ticked on it
TickAfterReload ==
    /\ lastOp = "runSimulation"
    /\ nodesGen = 2
    /\ graphData = G2

\* C10: after the timeout of the latest trigger fired with no poll having
\* succeeded, no poll response loads a graph.
AbandonedAfterTimeout ==
    (triggers > 0 /\ triggers \in timedOut) => lastOp # "poll.setGraphData"

\* C11: once the extract request of a trigger has succeeded, its polling
\* interval is eventually cleared, by a poll response or by the timeout and
\* by nothing else; the extracting flag of the open view eventually becomes
\* false, and only a new trigger makes it true again.
PollingStops ==
    /\ \A k \in 1..MaxTriggers :
          (k \in timeouts) ~> (k \notin intervals /\ k \notin timeouts)
    /\ \A k \in 1..MaxTriggers :
          (k \in timeouts /\ mounted) ~> (~extracting \/ ~mounted)
    /\ [][ /\ (~extracting /\ extracting') => lastOp' = "triggerExtraction"
           /\ \A k \in 1..MaxTriggers :
                 (k \in intervals /\ k \notin intervals') =>
                     lastOp' \in {"poll.setGraphData", "poll.noGraph", "timeoutFires"} ]_vars

\* the timeout ended an extraction whose polls had all come back without nodes
GaveUpAfterEmptyPolls ==
    /\ lastOp = "timeoutFires"
    /\ triggers \in timedOut
    /\ pollsSent > 0
    /\ polls[triggers] = 0
    /\ Len(graphData.nodes) = 0
    /\ ~extracting
    /\ intervals = {}

\* C12: when a loadData call ends without a graph (the request failed or the
\* snapshot has no nodes), loading is over, no canvas is shown and the
\* Extract action is on offer.
EmptyLoadShowsEmptyState ==
    lastOp = "loadData.noGraph" =>
        /\ ~loading
        /\ ~CanvasShown
        /\ Len(graphData.nodes) = 0

\* C13: at most one frame callback is pending at any time, and it is the one
\* animationRef names; a load that initialises the graph leaves none of the
\* callbacks that were pending before it; once the view is unmounted no
\* callback is pending and no tick runs.
LoopLifecycle ==
    [][ /\ Cardinality(rafQueue') <= 1
        /\ \A f \in rafQueue' : f.h = animationRef'
        /\ (/\ lastOp' \in {"loadData.setGraphData", "poll.setGraphData"}
            /\ nodesGen' # nodesGen) => rafQueue' \cap rafQueue = {}
        /\ ~mounted' => rafQueue' = {}
        /\ ~mounted => lastOp' \notin {"runSimulation", "runSimulation.return"} ]_vars

\* a reload has replaced a running loop by a new one
LoopRestarted ==
    /\ lastOp \in {"loadData.setGraphData", "poll.setGraphData"}
    /\ nodesGen = 2
    /\ animationRef > 1
    /\ Cardinality(rafQueue) = 1

\* C14: when a tick returns early for want of a canvas or a drawing
\* context, a later frame is still scheduled while the view is open.
LoopSurvivesSkippedFrame ==
    (lastOp = "runSimulation.return" /\ mounted) => rafQueue # {}

\* C15: a tick that runs while the canvas has zero logical width or height
\* leaves the position and velocity of every node as they were.
ZeroSizeTickIsNoOp ==
    [][ (/\ lastOp' = "runSimulation"
         /\ (canvas.logicalWidth = 0 \/ canvas.logicalHeight = 0))
            => nodesRef' = nodesRef ]_vars

AllReleased == \A i \in 1..Len(nodesRef) : nodesRef[i].fx = Null /\ nodesRef[i].fy = Null

\* the kinematic state the next tick would produce
NextTick == TickNodes(nodesRef, edgesRef, TickWidth, TickHeight)

Distance(a, b) == Sqrt((a.x - b.x) * (a.x - b.x) + (a.y - b.y) * (a.y - b.y))

\* C16: with all pins released, a kinematic state that ticking reproduces
\* (the layout has converged) has every pair of distinct nodes at least
\* minDistance apart, less a tolerance of one pixel.
SeparatedAtRest ==
    (/\ lastOp = "runSimulation"
     /\ AllReleased
     /\ NextTick = nodesRef) =>
        \A i, j \in 1..Len(nodesRef) :
            i # j => Distance(nodesRef[i], nodesRef[j]) >= (minDistance - 1) * Unit

\* C17: with all pins released, a kinematic state that ticking reproduces has
\* every velocity at 0.
VelocityDiesOut ==
    (/\ lastOp = "runSimulation"
     /\ AllReleased
     /\ NextTick = nodesRef) =>
        \A i \in 1..Len(nodesRef) : nodesRef[i].vx = 0 /\ nodesRef[i].vy = 0

Abs(v) == IF v < 0 THEN -v ELSE v

\* C18: with the zoom and pan the view holds, the pointer-to-model
\* conversion of the handlers inverts the drawing transform: the pointer
\* placed where a node is drawn converts back to the node's (x, y), to
\* within the one CSS pixel a pointer position is rounded to, and the hit
\* test finds a node there.
TransformInverts ==
    CanvasShown =>
        \A i \in 1..Len(nodesRef) :
            LET n == nodesRef[i]
                env == Env(zoom, pan, selectedNode, hoveredNode, selectedTypes)
                pt == ModelPoint(ClientPoint(DevicePoint(env, dpr, n.x, n.y), dpr))
                pixel == (Unit * ZoomUnit) \div zoom + 1
            IN  /\ Abs(pt.x - n.x) <= pixel
                /\ Abs(pt.y - n.y) <= pixel
                /\ Hit(nodesRef, pt) # 0

\* a pointerdown on a node hit it after the view had been zoomed
HitUnderZoom ==
    /\ lastOp = "handleCanvasMouseDown"
    /\ draggedNode # NoRef
    /\ selectedNode = draggedNode
    /\ zoom # Zoom0

\* the zoom indicator after the step
ZoomPercentNext == RoundDiv(zoom' * 100, ZoomUnit)

ShownByFilter ==
    { nodesRef[i].id : i \in { j \in 1..Len(nodesRef) :
                                 selectedTypes = {} \/ nodesRef[j].type \in selectedTypes } }

\* C20: the nodes a frame draws are all nodes when the type filter is empty
\* and otherwise exactly the nodes whose type is in the filter; an edge is
\* drawn only between two drawn nodes; hidden nodes stay in the kinematic
\* state.
FrameFollowsTypeFilter ==
    lastOp = "runSimulation" =>
        /\ Ids(frame.nodes) = ShownByFilter
        /\ \A k \in 1..Len(frame.edges) :
              /\ frame.edges[k].source \in Ids(frame.nodes)
              /\ frame.edges[k].target \in Ids(frame.nodes)
        /\ Ids(nodesRef) = Ids(graphData.nodes)

\* the gesture states of the pointer handlers
NodeDragging == draggedNode # NoRef
PanDragging == isDragging

\* C21: the gesture is in exactly one of Idle, PanDragging and NodeDragging:
\* a node is never being dragged while canvas panning is active.
DragPanExclusive == ~(NodeDragging /\ PanDragging)

\* C22: a node of the kinematic state has a pin only if it is the node being
\* dragged; after pointerup or pointerleave the gesture is idle and no node
\* is pinned.
PinsOnlyWhileDragged ==
    /\ \A i \in 1..Len(nodesRef) :
          (nodesRef[i].fx # Null \/ nodesRef[i].fy # Null) => draggedNode = RefTo(i)
    /\ lastOp \in {"handleCanvasMouseUp", "handleCanvasMouseLeave"} =>
          ~NodeDragging /\ ~PanDragging

\* the nodes within the hit radius of the model-space position of pointer p
Near(p) ==
    { i \in 1..Len(nodesRef) : Distance(nodesRef[i], ModelPoint(p)) < hitRadius * Unit }

PinnedNodeAtRest ==
    lastOp = "runSimulation" =>
        \A i \in 1..Len(nodesRef) :
            Pinned(nodesRef[i]) => nodesRef[i].vx = 0 /\ nodesRef[i].vy = 0

\* the kinematic state with every pinned node moved to its pin target
PinsApplied(nodes) == [i \in 1..Len(nodes) |-> ApplyPin(nodes[i])]

\* C25: a tick computes every force from positions in which every pinned
\* node already sits at its pin target: the tick gives the result it would
\* give had all pins been applied before the first force was computed.
ForcesSeePinTargets ==
    [][ lastOp' = "runSimulation" =>
          nodesRef' = TickNodes(PinsApplied(nodesRef), edgesRef, TickWidth, TickHeight) ]_vars

\* C26 as stated: at the end of every tick every node, pinned or not, has
\* 40 <= x <= width - 40 and 40 <= y <= height - 40, whatever the logical
\* size of the container.
PositionWithinInset ==
    lastOp = "runSimulation" =>
        \A i \in 1..Len(nodesRef) :
            /\ boundsInset * Unit <= nodesRef[i].x
            /\ nodesRef[i].x <= TickWidth - boundsInset * Unit
            /\ boundsInset * Unit <= nodesRef[i].y
            /\ nodesRef[i].y <= TickHeight - boundsInset * Unit

\* C26: at the end of every tick every node, pinned or not, has
\* 40 <= x <= max(40, width - 40) and 40 <= y <= max(40, height - 40),
\* whatever the logical size of the container: in a container smaller than
\* 80 the lower bound wins.
PositionWithinInsetOrAtInset ==
    lastOp = "runSimulation" =>
        \A i \in 1..Len(nodesRef) :
            /\ boundsInset * Unit <= nodesRef[i].x
            /\ nodesRef[i].x <= Max(boundsInset * Unit, TickWidth - boundsInset * Unit)
            /\ boundsInset * Unit <= nodesRef[i].y
            /\ nodesRef[i].y <= Max(boundsInset * Unit, TickHeight - boundsInset * Unit)

\* a tick ran after the container had shrunk to 60 wide, with a node pinned
\* left of the inset: every node ended the tick at x = 40
TickInNarrowContainer ==
    /\ lastOp = "runSimulation"
    /\ TickWidth = 60 * Unit
    /\ \E i \in 1..Len(nodesRef) :
          /\ Pinned(nodesRef[i])
          /\ nodesRef[i].fx[1] < boundsInset * Unit
    /\ \A i \in 1..Len(nodesRef) : nodesRef[i].x = boundsInset * Unit

\* C27: at the end of every tick every node without a pin has |vx| <= 5 and
\* |vy| <= 5, whatever the forces of the tick were, and before the bounds
\* were applied integration had moved it by that velocity, so by at most 5
\* units per axis.
VelocityClamped ==
    [][ lastOp' = "runSimulation" =>
          \A i \in 1..Len(nodesRef) :
              ~Pinned(nodesRef[i]) =>
                  /\ Abs(nodesRef'[i].vx) <= maxVelocity * Unit
                  /\ Abs(nodesRef'[i].vy) <= maxVelocity * Unit
                  /\ nodesRef'[i].x = InsetX(nodesRef[i].x + nodesRef'[i].vx)
                  /\ nodesRef'[i].y = InsetY(nodesRef[i].y + nodesRef'[i].vy) ]_vars

\* a tick ended with a node without a pin at the full velocity on an axis
VelocitySaturated ==
    /\ lastOp = "runSimulation"
    /\ \E i \in 1..Len(nodesRef) :
          /\ ~Pinned(nodesRef[i])
          /\ \/ Abs(nodesRef[i].vx) = maxVelocity * Unit
             \/ Abs(nodesRef[i].vy) = maxVelocity * Unit

\* C29: once the view is unmounted no further poll request is sent and no
\* poll or timeout callback changes the state of the view: the polling
\* interval and its 2-minute timeout do not outlive the view.
TimersEndWithView ==
    [][ ~mounted =>
          /\ pollsSent' = pollsSent
          /\ reactState' = reactState
          /\ lastOp' \notin {"intervalFires", "timeoutFires"} ]_vars

\* C28: one extraction yields at most one initialisation of the graph: once
\* a poll response has loaded the graph, no later poll response replaces the
\* kinematic state or restarts the loop.  Without a graph from loadData, the
\* kinematic state has been built at most once per extraction.
OneInitialisationPerExtraction == nodesGen <= triggers

\* the node object a reference names is in nodesRef.current
InKinematicState(ref) == ref.gen = nodesGen /\ ref.idx \in 1..Len(nodesRef)

\* C30: whenever a node is being dragged, the dragged node, and likewise the
\* selected node, is an element of the current kinematic state, also when a
\* load of the graph replaced the kinematic state since the pointerdown.
DraggedNodeIsTicked ==
    NodeDragging =>
        /\ InKinematicState(draggedNode)
        /\ selectedNode # NoRef => InKinematicState(selectedNode)

====
